---- MODULE Spec2Model ----
(***************************************************************************)
(* AQI_Predict: the daily ETL (scripts/etl.py) and the historical backfill *)
(* (scripts/historical_backfill.py).  Both fetch an air-quality and a      *)
(* weather response per unit of work, merge them into one daily reading    *)
(* and upsert it into the tables locations and daily_readings.             *)
(*                                                                         *)
(* Representation of Python / JSON values:                                 *)
(*   - None is the empty tuple <<>>; a present object x is <<x>>.          *)
(*   - a dict is a record of optional keys: a key is <<>> when absent and  *)
(*     <<v>> when present; "other" says whether the dict carries keys the  *)
(*     code never reads (a dict is empty, hence falsy, when no key at all  *)
(*     is present).                                                        *)
(*   - a list is a sequence.                                               *)
(*   - a number stored in a reading is a reduced fraction <<n, d>>;        *)
(*     float NaN (the mean pandas returns for an all-missing column) is    *)
(*     <<0, 0>>; None is <<>>.                                             *)
(***************************************************************************)
EXTENDS Integers, Sequences, FiniteSets, TLC

\* Bounds of the model.
MaxDays == 2
MaxHours == 2
MaxCalls == 3

----------------------------------------------------------------------------
\* Values

None == <<>>

Some(x) == <<x>>

NaN == <<0, 0>>

RECURSIVE Gcd(_, _)
Gcd(a, b) == IF b = 0 THEN a ELSE Gcd(b, a % b)

\* The float n/d (d > 0), kept as a reduced fraction.
Num(n, d) == LET g == Gcd(n, d) IN IF g = 0 THEN <<n, d>> ELSE <<n \div g, d \div g>>

\* dict.get(key, default) on an optional key.
DictGet(opt, default) == IF opt = <<>> THEN default ELSE opt[1]

\* dict.get(key) of a JSON number: None when the key is absent.
JsonNumber(opt) == IF opt = <<>> THEN None ELSE Num(opt[1], 1)

\* Python truthiness of a fetched response: None and {} are falsy.
WeatherTruthy(w) == w # None /\ (w[1].daily # <<>> \/ w[1].other)

AqiTruthy(a) == a # None /\ (a[1].indexes # <<>> \/ a[1].pollutants # <<>> \/ a[1].other)

HistoryTruthy(a) == a # None /\ (a[1].hoursInfo # <<>> \/ a[1].other)

----------------------------------------------------------------------------
\* Configuration

LOCATIONS ==
    << [city |-> "Savannah", country |-> "USA", latitude |-> "32.0809", longitude |-> "-81.0912"],
       [city |-> "Port Wentworth", country |-> "USA", latitude |-> "32.17", longitude |-> "-81.17"],
       [city |-> "Pooler", country |-> "USA", latitude |-> "32.11", longitude |-> "-81.25"] >>

\* 28 in the source; the model runs the same loop over MaxDays days.
DAYS_OF_HISTORY == MaxDays

POLLUTANT_CODES == <<"pm10", "pm25", "o3", "no2", "co", "so2">>

----------------------------------------------------------------------------
\* The merge: weather part, shared by both scripts.

\* daily_weather.get(key, [None]): the list under the key, [None] when absent.
WeatherList(daily, key) == DictGet(daily[key], <<None>>)

\* Mutant: daily_weather[key][0] instead of .get(key, [None])[0], so that a
\* missing 'daily' object or list raises too.
WeatherRaises_Subscript(w) ==
    \/ w.daily = <<>>
    \/ \E key \in {"temperature_2m_mean", "precipitation_sum", "wind_speed_10m_max"} :
          w.daily[1][key] \in {<<>>, Some(<<>>)}

\* [0] of an empty list raises IndexError.
WeatherRaises(w) ==
    LET daily == DictGet(w.daily, [temperature_2m_mean |-> <<>>, precipitation_sum |-> <<>>,
                                   wind_speed_10m_max |-> <<>>])
    IN  \E key \in {"temperature_2m_mean", "precipitation_sum", "wind_speed_10m_max"} :
            WeatherList(daily, key) = <<>>

WeatherValue(w, key) ==
    LET daily == DictGet(w.daily, [temperature_2m_mean |-> <<>>, precipitation_sum |-> <<>>,
                                   wind_speed_10m_max |-> <<>>])
    IN  JsonNumber(WeatherList(daily, key)[1])

\* p.get('concentration', {}).get('value')
ConcentrationValue(p) == JsonNumber(DictGet(p.concentration, [value |-> <<>>]).value)

\* {p.get('code'): ... for p in pollutants}.get(code): a later entry with the
\* same code replaces an earlier one; None when no entry has the code.
get_pollutant_value(pollutants, code) ==
    IF pollutants = <<>>
    THEN None
    ELSE LET m == SelectSeq(pollutants[1], LAMBDA p : p.code = Some(code))
         IN  IF m = <<>> THEN None ELSE ConcentrationValue(m[Len(m)])

\* next(... for idx in indexes if idx.get('code') == 'uaqi'): the first uaqi
\* entry decides, None when there is none.
get_aqi(indexes) ==
    IF indexes = <<>>
    THEN None
    ELSE LET m == SelectSeq(indexes[1], LAMBDA idx : idx.code = Some("uaqi"))
         IN  IF m = <<>> THEN None ELSE JsonNumber(m[1].aqi)

Reading(date, aqi, pm10, pm25, o3, no2, co, so2, w) ==
    [reading_date |-> date, aqi |-> aqi, pm10 |-> pm10, pm25 |-> pm25, o3 |-> o3,
     no2 |-> no2, co |-> co, so2 |-> so2,
     temperature_celsius |-> WeatherValue(w, "temperature_2m_mean"),
     precipitation_mm |-> WeatherValue(w, "precipitation_sum"),
     wind_speed_kmh |-> WeatherValue(w, "wind_speed_10m_max")]

\* etl.py: aqi_data.get('indexes', []) and aqi_data.get('pollutants', []).
transform_data(now, aqi_data, weather_data) ==
    IF ~AqiTruthy(aqi_data) \/ ~WeatherTruthy(weather_data)
    THEN None
    ELSE LET a == aqi_data[1]
             w == weather_data[1]
             indexes == Some(DictGet(a.indexes, <<>>))
             pollutants == Some(DictGet(a.pollutants, <<>>))
         IN  IF WeatherRaises(w)
             THEN None
             ELSE Some(Reading(now, get_aqi(indexes),
                               get_pollutant_value(pollutants, "pm10"),
                               get_pollutant_value(pollutants, "pm25"),
                               get_pollutant_value(pollutants, "o3"),
                               get_pollutant_value(pollutants, "no2"),
                               get_pollutant_value(pollutants, "co"),
                               get_pollutant_value(pollutants, "so2"), w))

----------------------------------------------------------------------------
\* The merge: hourly averaging of the backfill.

RECURSIVE SumNum(_)
SumNum(vals) == IF vals = <<>> THEN 0 ELSE Head(vals)[1] + SumNum(Tail(vals))

\* DataFrame.mean() of one column: missing values are skipped, the mean of
\* no value at all is NaN.  The hourly values are JSON numbers <<n, 1>>.
ColumnMean(col) ==
    LET vals == SelectSeq(col, LAMBDA v : v # None)
    IN  IF vals = <<>> THEN NaN ELSE Num(SumNum(vals), Len(vals))

\* pd.DataFrame(hourly_readings) has a column for every key some hour carries.
HasColumn(hours, key) == \E i \in 1..Len(hours) : hours[i][key] # <<>>

AqiColumn(hours) == [i \in 1..Len(hours) |-> get_aqi(hours[i].indexes)]

PollutantColumn(hours, code) ==
    [i \in 1..Len(hours) |-> get_pollutant_value(hours[i].pollutants, code)]

transform_historical_data(date_to_fetch, aqi_history_data, weather_data) ==
    IF ~HistoryTruthy(aqi_history_data) \/ ~WeatherTruthy(weather_data)
    THEN None
    ELSE LET w == weather_data[1]
             hourly_readings == DictGet(aqi_history_data[1].hoursInfo, <<>>)
         IN  IF WeatherRaises(w) THEN None
             ELSE IF hourly_readings = <<>> THEN None
             ELSE IF ~HasColumn(hourly_readings, "indexes") THEN None      \* KeyError
             ELSE IF ~HasColumn(hourly_readings, "pollutants") THEN None   \* KeyError
             ELSE Some(Reading(date_to_fetch,
                               ColumnMean(AqiColumn(hourly_readings)),
                               ColumnMean(PollutantColumn(hourly_readings, "pm10")),
                               ColumnMean(PollutantColumn(hourly_readings, "pm25")),
                               ColumnMean(PollutantColumn(hourly_readings, "o3")),
                               ColumnMean(PollutantColumn(hourly_readings, "no2")),
                               ColumnMean(PollutantColumn(hourly_readings, "co")),
                               ColumnMean(PollutantColumn(hourly_readings, "so2")), w))

----------------------------------------------------------------------------
\* Responses of the two HTTP sources.

IndexLists ==
    { <<>>,                                                        \* no 'indexes' key
      Some(<<>>),
      Some(<< [code |-> Some("uaqi"), aqi |-> Some(42)] >>),
      Some(<< [code |-> Some("usa_epa"), aqi |-> Some(7)],
              [code |-> Some("uaqi"), aqi |-> Some(50)],
              [code |-> Some("uaqi"), aqi |-> Some(99)] >>),
      Some(<< [code |-> Some("uaqi"), aqi |-> <<>>] >>) }

PollutantLists ==
    { <<>>,                                                        \* no 'pollutants' key
      Some(<< [code |-> Some("pm25"), concentration |-> Some([value |-> Some(10)])] >>),
      Some(<< [code |-> Some("pm25"), concentration |-> Some([value |-> Some(5)])],
              [code |-> Some("pm10"), concentration |-> Some([value |-> Some(4)])],
              [code |-> Some("pm25"), concentration |-> Some([value |-> Some(20)])] >>),
      Some(<< [code |-> Some("pm25"), concentration |-> <<>>],
              [code |-> <<>>, concentration |-> Some([value |-> Some(3)])] >>) }

WeatherLists == { <<>>, Some(<<>>), Some(<< <<>> >>), Some(<< Some(21) >>) }

\* None is a failed fetch.
WeatherResponses ==
    { Some([daily |-> <<>>, other |-> o]) : o \in BOOLEAN }
    \cup { Some([daily |-> Some([temperature_2m_mean |-> t, precipitation_sum |-> p,
                                 wind_speed_10m_max |-> s]), other |-> TRUE]) :
             t \in WeatherLists, p \in {<<>>, Some(<< Some(0) >>)},
             s \in {Some(<<>>), Some(<< Some(15) >>)} }

AqiResponses ==
    { Some([indexes |-> i, pollutants |-> p, other |-> o]) :
        i \in IndexLists, p \in PollutantLists, o \in BOOLEAN }

HourEntries == { [indexes |-> i, pollutants |-> p] : i \in IndexLists \ {Some(<<>>)},
                                                     p \in PollutantLists }

RECURSIVE SeqsUpTo(_, _)
SeqsUpTo(S, n) ==
    IF n = 0 THEN { <<>> }
    ELSE LET shorter == SeqsUpTo(S, n - 1)
         IN  shorter \cup { Append(q, x) : q \in shorter, x \in S }

HistoryResponses ==
    { Some([hoursInfo |-> <<>>, other |-> o]) : o \in BOOLEAN }
    \cup { Some([hoursInfo |-> Some(h), other |-> TRUE]) : h \in SeqsUpTo(HourEntries, MaxHours) }

\* The responses the run driver is exercised with.
GoodWeather ==
    Some([daily |-> Some([temperature_2m_mean |-> Some(<< Some(21) >>),
                          precipitation_sum |-> Some(<< Some(0) >>),
                          wind_speed_10m_max |-> Some(<< Some(15) >>)]), other |-> TRUE])

RunWeatherResponses == { GoodWeather, Some([daily |-> <<>>, other |-> TRUE]) }

RunAqiResponses ==
    { Some([indexes |-> Some(<< [code |-> Some("uaqi"), aqi |-> Some(42)] >>),
            pollutants |-> Some(<< [code |-> Some("pm25"),
                                    concentration |-> Some([value |-> Some(10)])] >>),
            other |-> TRUE]),
      Some([indexes |-> <<>>, pollutants |-> <<>>, other |-> TRUE]) }

RunHistoryResponses ==
    { Some([hoursInfo |-> Some(<<
              [indexes |-> Some(<< [code |-> Some("uaqi"), aqi |-> Some(42)] >>),
               pollutants |-> Some(<< [code |-> Some("pm25"),
                                       concentration |-> Some([value |-> Some(10)])] >>)],
              [indexes |-> <<>>,
               pollutants |-> Some(<< [code |-> Some("pm25"),
                                       concentration |-> Some([value |-> Some(21)])] >>)] >>),
            other |-> TRUE]),
      Some([hoursInfo |-> Some(<<
              [indexes |-> <<>>,
               pollutants |-> Some(<< [code |-> Some("pm25"),
                                       concentration |-> Some([value |-> Some(10)])] >>)] >>),
            other |-> TRUE]) }

----------------------------------------------------------------------------
\* State

VARIABLES
    mode,                \* "current" (etl.py), "backfill" (historical_backfill.py),
                         \* "store" (load_data called repeatedly), "merge" (one merge)
    api_key,             \* whether GOOGLE_API_KEY is set
    pc,                  \* position of the script
    engine,              \* result of get_db_engine: "unset", "engine" or "none"
    today,               \* the day the clock shows (days are numbered)
    i,                   \* backfill: the loop variable of range(DAYS_OF_HISTORY, 0, -1)
    loc,                 \* index into LOCATIONS of the location being processed
    date_to_fetch,       \* backfill: today - i
    location,            \* load_data's location_info
    aqi_data, weather_data, transformed_reading,
    locations,           \* committed rows of table locations
    daily_readings,      \* committed rows of table daily_readings
    next_id,             \* the sequence behind locations.id
    conn,                \* load_data's open connection: the rows its transaction sees
    location_id,         \* load_data's local
    requests,            \* HTTP requests issued: [aqi, weather]
    calls,               \* calls made: [transform, load]
    started,             \* units of work begun, in order
    committed,           \* rows of the upserts that committed, in order
    snapshot,            \* the tables as they were when load_data was entered
    outcome              \* how the last load_data ended: "none", "returned", "raised"

vars == << mode, api_key, pc, engine, today, i, loc, date_to_fetch, location, aqi_data,
           weather_data, transformed_reading, locations, daily_readings, next_id, conn,
           location_id, requests, calls, started, committed, snapshot, outcome >>

run_vars == << mode, api_key, engine, today >>

store_vars == << locations, daily_readings, next_id, conn, location_id, committed,
                 snapshot, outcome >>

InitCommon ==
    /\ engine = "unset"
    /\ today = DAYS_OF_HISTORY
    /\ i = 0
    /\ loc = 0
    /\ date_to_fetch = 0
    /\ location = None
    /\ locations = <<>>
    /\ daily_readings = <<>>
    /\ next_id = 1
    /\ conn = None
    /\ location_id = None
    /\ requests = [aqi |-> 0, weather |-> 0]
    /\ calls = [transform |-> 0, load |-> 0]
    /\ started = <<>>
    /\ committed = <<>>
    /\ snapshot = None
    /\ outcome = "none"

\* A run of etl.py or of historical_backfill.py.
Init ==
    /\ mode \in {"current", "backfill"}
    /\ api_key \in BOOLEAN
    /\ pc = "main"
    /\ aqi_data = None
    /\ weather_data = None
    /\ transformed_reading = None
    /\ InitCommon

----------------------------------------------------------------------------
\* The run drivers (the __main__ blocks)

\* Mutant: the result of get_db_engine is not tested.
get_db_engine_Unchecked ==
    /\ pc = "main"
    /\ engine' \in {"engine", "none"}
    /\ pc' = "for"
    /\ UNCHANGED << mode, api_key, today, i, loc, date_to_fetch, location, aqi_data,
                    weather_data, transformed_reading, requests, calls, started >>
    /\ UNCHANGED store_vars

\* engine = get_db_engine(); if not engine: halt.  The connection attempt
\* succeeds or raises; a raise is caught and None returned.
get_db_engine ==
    /\ pc = "main"
    /\ \E connected \in BOOLEAN :
         IF connected
         THEN /\ engine' = "engine"
              /\ pc' = "for"
         ELSE /\ engine' = "none"
              /\ pc' = "done"
    /\ UNCHANGED << mode, api_key, today, i, loc, date_to_fetch, location, aqi_data,
                    weather_data, transformed_reading, requests, calls, started >>
    /\ UNCHANGED store_vars

\* etl.py: for location in LOCATIONS.
for_location ==
    /\ pc = "for"
    /\ mode = "current"
    /\ IF loc < Len(LOCATIONS)
       THEN /\ loc' = loc + 1
            /\ location' = Some(LOCATIONS[loc + 1])
            /\ started' = Append(started, [date |-> today, loc |-> loc + 1])
            /\ pc' = "fetch_aqi"
       ELSE /\ pc' = "done"
            /\ UNCHANGED << loc, location, started >>
    /\ UNCHANGED << mode, api_key, engine, today, i, date_to_fetch, aqi_data, weather_data,
                    transformed_reading, requests, calls >>
    /\ UNCHANGED store_vars

\* historical_backfill.py: for i in range(DAYS_OF_HISTORY, 0, -1):
\*                             for location in LOCATIONS: ...; sleep(1)
for_date_location ==
    /\ pc = "for"
    /\ mode = "backfill"
    /\ LET first == (i = 0)
           next_i == IF first THEN DAYS_OF_HISTORY
                     ELSE IF loc < Len(LOCATIONS) THEN i ELSE i - 1
           next_loc == IF ~first /\ loc < Len(LOCATIONS) THEN loc + 1 ELSE 1
       IN  IF next_i >= 1
           THEN /\ i' = next_i
                /\ loc' = next_loc
                /\ date_to_fetch' = today - next_i
                /\ location' = Some(LOCATIONS[next_loc])
                /\ started' = Append(started, [date |-> today - next_i, loc |-> next_loc])
                /\ pc' = "fetch_aqi"
           ELSE /\ pc' = "done"
                /\ UNCHANGED << i, loc, date_to_fetch, location, started >>
    /\ UNCHANGED << mode, api_key, engine, today, aqi_data, weather_data,
                    transformed_reading, requests, calls >>
    /\ UNCHANGED store_vars

\* Mutant: the request is made whether or not the key is set.
fetch_air_quality_data_NoKeyCheck ==
    /\ pc = "fetch_aqi"
    /\ mode = "current"
    /\ requests' = [requests EXCEPT !.aqi = @ + 1]
    /\ aqi_data' \in {None} \cup RunAqiResponses
    /\ pc' = "fetch_weather"
    /\ UNCHANGED << mode, api_key, engine, today, i, loc, date_to_fetch, location,
                    weather_data, transformed_reading, calls, started >>
    /\ UNCHANGED store_vars

\* Without the key no request is made and None is returned; otherwise the
\* request is made and its failure gives None.
fetch_air_quality_data ==
    /\ pc = "fetch_aqi"
    /\ mode = "current"
    /\ IF ~api_key
       THEN /\ aqi_data' = None
            /\ UNCHANGED requests
       ELSE /\ requests' = [requests EXCEPT !.aqi = @ + 1]
            /\ aqi_data' \in {None} \cup RunAqiResponses
    /\ pc' = "fetch_weather"
    /\ UNCHANGED << mode, api_key, engine, today, i, loc, date_to_fetch, location,
                    weather_data, transformed_reading, calls, started >>
    /\ UNCHANGED store_vars

fetch_historical_aqi_data ==
    /\ pc = "fetch_aqi"
    /\ mode = "backfill"
    /\ IF ~api_key
       THEN /\ aqi_data' = None
            /\ UNCHANGED requests
       ELSE /\ requests' = [requests EXCEPT !.aqi = @ + 1]
            /\ aqi_data' \in {None} \cup RunHistoryResponses
    /\ pc' = "fetch_weather"
    /\ UNCHANGED << mode, api_key, engine, today, i, loc, date_to_fetch, location,
                    weather_data, transformed_reading, calls, started >>
    /\ UNCHANGED store_vars

\* Both scripts: the request is always made, its failure gives None.
fetch_weather_data ==
    /\ pc = "fetch_weather"
    /\ requests' = [requests EXCEPT !.weather = @ + 1]
    /\ weather_data' \in {None} \cup RunWeatherResponses
    /\ pc' = "transform"
    /\ UNCHANGED << mode, api_key, engine, today, i, loc, date_to_fetch, location,
                    aqi_data, transformed_reading, calls, started >>
    /\ UNCHANGED store_vars

\* transformed_reading = transform_data(aqi_data, weather_data), with
\* datetime.now().date() as the reading_date.
transform_current ==
    /\ pc = "transform"
    /\ mode = "current"
    /\ transformed_reading' = transform_data(today, aqi_data, weather_data)
    /\ calls' = [calls EXCEPT !.transform = @ + 1]
    /\ pc' = "if_transformed"
    /\ UNCHANGED << mode, api_key, engine, today, i, loc, date_to_fetch, location,
                    aqi_data, weather_data, requests, started >>
    /\ UNCHANGED store_vars

transform_historical ==
    /\ pc = "transform"
    /\ mode = "backfill"
    /\ transformed_reading' = transform_historical_data(date_to_fetch, aqi_data, weather_data)
    /\ calls' = [calls EXCEPT !.transform = @ + 1]
    /\ pc' = "if_transformed"
    /\ UNCHANGED << mode, api_key, engine, today, i, loc, date_to_fetch, location,
                    aqi_data, weather_data, requests, started >>
    /\ UNCHANGED store_vars

\* Mutant: load_data is called without testing transformed_reading.
if_transformed_reading_Always ==
    /\ pc = "if_transformed"
    /\ mode \in {"current", "backfill"}
    /\ pc' = "load_data"
    /\ calls' = [calls EXCEPT !.load = @ + 1]
    /\ snapshot' = Some([locations |-> locations, daily_readings |-> daily_readings])
    /\ outcome' = "none"
    /\ UNCHANGED << mode, api_key, engine, today, i, loc, date_to_fetch, location, aqi_data,
                    weather_data, transformed_reading, requests, started >>
    /\ UNCHANGED << locations, daily_readings, next_id, conn, location_id, committed >>

\* if transformed_reading: load_data(engine, location, transformed_reading)
if_transformed_reading ==
    /\ pc = "if_transformed"
    /\ mode \in {"current", "backfill"}
    /\ IF transformed_reading # None
       THEN /\ pc' = "load_data"
            /\ calls' = [calls EXCEPT !.load = @ + 1]
            /\ snapshot' = Some([locations |-> locations, daily_readings |-> daily_readings])
            /\ outcome' = "none"
       ELSE /\ pc' = "for"
            /\ UNCHANGED << calls, snapshot, outcome >>
    /\ UNCHANGED << mode, api_key, engine, today, i, loc, date_to_fetch, location, aqi_data,
                    weather_data, transformed_reading, requests, started >>
    /\ UNCHANGED << locations, daily_readings, next_id, conn, location_id, committed >>

----------------------------------------------------------------------------
\* The reading store (load_data, the same in both scripts)

\* SELECT id FROM locations WHERE city = :city AND country = :country
MatchingLocations(rows, location_info) ==
    SelectSeq(rows, LAMBDA l : l.city = location_info.city /\ l.country = location_info.country)

\* Mutant: the lookup never finds the location.
ExistingId_NeverFound(rows, location_info) == None

\* .scalar_one_or_none(): None for no row, the id for one row (it raises for
\* more than one, see load_data).
ExistingId(rows, location_info) ==
    LET m == MatchingLocations(rows, location_info)
    IN  IF m = <<>> THEN None ELSE Some(m[1].id)

\* INSERT INTO locations (...) VALUES (...) RETURNING id
InsertLocation(rows, id, location_info) ==
    Append(rows, [id |-> id, city |-> location_info.city, country |-> location_info.country,
                  latitude |-> location_info.latitude, longitude |-> location_info.longitude])

ReadingRow(id, r) ==
    [location_id |-> id, reading_date |-> r.reading_date, aqi |-> r.aqi, pm10 |-> r.pm10,
     pm25 |-> r.pm25, o3 |-> r.o3, no2 |-> r.no2, co |-> r.co, so2 |-> r.so2,
     temperature_celsius |-> r.temperature_celsius, precipitation_mm |-> r.precipitation_mm,
     wind_speed_kmh |-> r.wind_speed_kmh]

SameKey(a, b) == a.location_id = b.location_id /\ a.reading_date = b.reading_date

\* Mutant: DO UPDATE SET col = COALESCE(EXCLUDED.col, col), which keeps the
\* old value where the new one is null.
UpsertReading_KeepNonNull(rows, row) ==
    LET Coalesce(new, old) == IF new = None THEN old ELSE new
    IN  IF \E k \in 1..Len(rows) : SameKey(rows[k], row)
        THEN [k \in 1..Len(rows) |->
                IF SameKey(rows[k], row)
                THEN [rows[k] EXCEPT !.aqi = Coalesce(row.aqi, @),
                                     !.pm10 = Coalesce(row.pm10, @),
                                     !.pm25 = Coalesce(row.pm25, @),
                                     !.o3 = Coalesce(row.o3, @),
                                     !.no2 = Coalesce(row.no2, @),
                                     !.co = Coalesce(row.co, @),
                                     !.so2 = Coalesce(row.so2, @),
                                     !.temperature_celsius = Coalesce(row.temperature_celsius, @),
                                     !.precipitation_mm = Coalesce(row.precipitation_mm, @),
                                     !.wind_speed_kmh = Coalesce(row.wind_speed_kmh, @)]
                ELSE rows[k]]
        ELSE Append(rows, row)

\* INSERT INTO daily_readings ... ON CONFLICT (location_id, reading_date)
\* DO UPDATE SET <every other column> = EXCLUDED.<column>
UpsertReading(rows, row) ==
    IF \E k \in 1..Len(rows) : SameKey(rows[k], row)
    THEN [k \in 1..Len(rows) |->
            IF SameKey(rows[k], row)
            THEN [rows[k] EXCEPT !.aqi = row.aqi, !.pm10 = row.pm10, !.pm25 = row.pm25,
                                 !.o3 = row.o3, !.no2 = row.no2, !.co = row.co,
                                 !.so2 = row.so2,
                                 !.temperature_celsius = row.temperature_celsius,
                                 !.precipitation_mm = row.precipitation_mm,
                                 !.wind_speed_kmh = row.wind_speed_kmh]
            ELSE rows[k]]
    ELSE Append(rows, row)

LoadPcs == {"load_data", "insert_location", "upsert_reading", "commit"}

\* Where control goes when load_data returns, and when it raises: neither
\* __main__ block catches an exception of load_data, so the script ends there.
AfterReturn == IF mode = "store" THEN "idle" ELSE "for"

AfterRaise == IF mode = "store" THEN "idle" ELSE "crashed"

\* with engine.connect() as connection: the SELECT, and the branch on it.
load_data ==
    /\ pc = "load_data"
    /\ transformed_reading # None
    /\ Len(MatchingLocations(locations, location[1])) <= 1
    /\ LET existing_id == ExistingId(locations, location[1])
       IN  /\ conn' = Some([locations |-> locations, daily_readings |-> daily_readings])
           /\ IF existing_id # None /\ existing_id # Some(0)
              THEN /\ location_id' = existing_id
                   /\ pc' = "upsert_reading"
              ELSE /\ location_id' = None
                   /\ pc' = "insert_location"
    /\ UNCHANGED << i, loc, date_to_fetch, location, aqi_data, weather_data,
                    transformed_reading, requests, calls, started >>
    /\ UNCHANGED << locations, daily_readings, next_id, committed, snapshot, outcome >>
    /\ UNCHANGED run_vars

\* Mutant: the INSERT of the location is committed on its own.
insert_location_Autocommit ==
    /\ pc = "insert_location"
    /\ conn' = Some([conn[1] EXCEPT !.locations = InsertLocation(@, next_id, location[1])])
    /\ locations' = InsertLocation(locations, next_id, location[1])
    /\ location_id' = Some(next_id)
    /\ next_id' = next_id + 1
    /\ pc' = "upsert_reading"
    /\ UNCHANGED << i, loc, date_to_fetch, location, aqi_data, weather_data,
                    transformed_reading, requests, calls, started >>
    /\ UNCHANGED << daily_readings, committed, snapshot, outcome >>
    /\ UNCHANGED run_vars

\* The INSERT of the location, inside the open transaction.
insert_location ==
    /\ pc = "insert_location"
    /\ conn' = Some([conn[1] EXCEPT !.locations = InsertLocation(@, next_id, location[1])])
    /\ location_id' = Some(next_id)
    /\ next_id' = next_id + 1
    /\ pc' = "upsert_reading"
    /\ UNCHANGED << i, loc, date_to_fetch, location, aqi_data, weather_data,
                    transformed_reading, requests, calls, started >>
    /\ UNCHANGED << locations, daily_readings, committed, snapshot, outcome >>
    /\ UNCHANGED run_vars

\* reading_data['location_id'] = location_id; the upsert, inside the transaction.
upsert_reading ==
    /\ pc = "upsert_reading"
    /\ conn' = Some([conn[1] EXCEPT !.daily_readings =
                        UpsertReading(@, ReadingRow(location_id[1], transformed_reading[1]))])
    /\ pc' = "commit"
    /\ UNCHANGED << i, loc, date_to_fetch, location, aqi_data, weather_data,
                    transformed_reading, requests, calls, started >>
    /\ UNCHANGED << locations, daily_readings, next_id, location_id, committed, snapshot,
                    outcome >>
    /\ UNCHANGED run_vars

\* connection.commit(), then the connection is closed and load_data returns.
commit ==
    /\ pc = "commit"
    /\ locations' = conn[1].locations
    /\ daily_readings' = conn[1].daily_readings
    /\ conn' = None
    /\ committed' = Append(committed,
                           [city |-> location[1].city, country |-> location[1].country,
                            row |-> ReadingRow(location_id[1], transformed_reading[1])])
    /\ outcome' = "returned"
    /\ pc' = AfterReturn
    /\ UNCHANGED << i, loc, date_to_fetch, location, aqi_data, weather_data,
                    transformed_reading, requests, calls, started >>
    /\ UNCHANGED << next_id, location_id, snapshot >>
    /\ UNCHANGED run_vars

\* Any statement of load_data may raise (or the process may die): leaving the
\* with block closes the connection, which rolls the open transaction back;
\* the values drawn from the id sequence are not given back.
load_data_raises ==
    /\ pc \in LoadPcs
    /\ conn' = None
    /\ outcome' = "raised"
    /\ pc' = AfterRaise
    /\ UNCHANGED << i, loc, date_to_fetch, location, aqi_data, weather_data,
                    transformed_reading, requests, calls, started >>
    /\ UNCHANGED << locations, daily_readings, next_id, location_id, committed, snapshot >>
    /\ UNCHANGED run_vars

\* Readings as the merge produces them, for two dates.
StoreReadings ==
    { transform_data(d, a, GoodWeather)[1] : d \in {today - 1, today}, a \in RunAqiResponses }

\* One more call of load_data on the same database (a later unit of work or a
\* later run), with any configured location and any reading.
call_load_data ==
    /\ pc = "idle"
    /\ mode = "store"
    /\ calls.load < MaxCalls
    /\ \E l \in 1..Len(LOCATIONS), r \in StoreReadings :
         /\ location' = Some(LOCATIONS[l])
         /\ transformed_reading' = Some(r)
    /\ calls' = [calls EXCEPT !.load = @ + 1]
    /\ snapshot' = Some([locations |-> locations, daily_readings |-> daily_readings])
    /\ outcome' = "none"
    /\ pc' = "load_data"
    /\ UNCHANGED << i, loc, date_to_fetch, aqi_data, weather_data, requests, started >>
    /\ UNCHANGED << locations, daily_readings, next_id, conn, location_id, committed >>
    /\ UNCHANGED run_vars

----------------------------------------------------------------------------
\* Specifications

Next ==
    \/ get_db_engine
    \/ for_location
    \/ for_date_location
    \/ fetch_air_quality_data
    \/ fetch_historical_aqi_data
    \/ fetch_weather_data
    \/ transform_current
    \/ transform_historical
    \/ if_transformed_reading
    \/ load_data
    \/ insert_location
    \/ upsert_reading
    \/ commit
    \/ load_data_raises

Spec == Init /\ [][Next]_vars

\* load_data called again and again on one database.
InitStore ==
    /\ mode = "store"
    /\ api_key = TRUE
    /\ pc = "idle"
    /\ aqi_data = None
    /\ weather_data = None
    /\ transformed_reading = None
    /\ InitCommon

NextStore ==
    \/ call_load_data
    \/ load_data
    \/ insert_location
    \/ upsert_reading
    \/ commit
    \/ load_data_raises

SpecStore == InitStore /\ [][NextStore]_vars

\* One merge of any pair of responses.
InitMerge ==
    /\ mode \in {"current", "backfill"}
    /\ api_key = TRUE
    /\ pc = "transform"
    /\ aqi_data \in {None} \cup (IF mode = "current" THEN AqiResponses ELSE HistoryResponses)
    /\ weather_data \in {None} \cup WeatherResponses
    /\ transformed_reading = None
    /\ InitCommon

NextMerge ==
    \/ transform_current
    \/ transform_historical

SpecMerge == InitMerge /\ [][NextMerge]_vars

----------------------------------------------------------------------------
\* Properties of the reading store (checked under SpecStore)

Tables == [locations |-> locations, daily_readings |-> daily_readings]

\* The committed upsert that is the most recent one for its key.
IsLatest(k) ==
    \A j \in (k + 1)..Len(committed) : ~SameKey(committed[j].row, committed[k].row)

UpsertedKeys ==
    { [location_id |-> committed[k].row.location_id,
       reading_date |-> committed[k].row.reading_date] : k \in 1..Len(committed) }

\* C1: daily_readings holds exactly one row per upserted (location_id,
\* reading_date), and that row is, column for column (nulls included), the
\* row supplied by the most recent upsert committed for the key.
C1_UpsertLastWriteWins ==
    /\ Len(daily_readings) = Cardinality(UpsertedKeys)
    /\ \A k \in 1..Len(committed) :
         IsLatest(k) =>
           /\ Cardinality({ j \in 1..Len(daily_readings) :
                              SameKey(daily_readings[j], committed[k].row) }) = 1
           /\ \E j \in 1..Len(daily_readings) : daily_readings[j] = committed[k].row

\* C1 witness: a key was upserted with aqi set, then with aqi null, then with
\* the same values again; the one row has aqi null.
C1_Witness ==
    /\ Len(committed) = 3
    /\ SameKey(committed[1].row, committed[2].row)
    /\ committed[1].row.aqi # None
    /\ committed[2].row.aqi = None
    /\ committed[3].row = committed[2].row
    /\ Len(daily_readings) = 1
    /\ daily_readings[1].aqi = None

SameLocation(a, b) == a.city = b.city /\ a.country = b.country

\* C2: locations never holds two rows for one (city, country), and all
\* committed upserts for one (city, country) carry the same location_id, the
\* id of that one row.
C2_LocationStable ==
    /\ \A a, b \in 1..Len(locations) : SameLocation(locations[a], locations[b]) => a = b
    /\ \A a, b \in 1..Len(committed) :
         SameLocation(committed[a], committed[b]) =>
           committed[a].row.location_id = committed[b].row.location_id
    /\ \A a \in 1..Len(committed) :
         \E l \in 1..Len(locations) :
           /\ SameLocation(locations[l], committed[a])
           /\ locations[l].id = committed[a].row.location_id

\* C2 witness: two upserts for one city with different readings, one row.
C2_Witness ==
    /\ Len(committed) >= 2
    /\ SameLocation(committed[1], committed[2])
    /\ committed[1].row # committed[2].row
    /\ Len(locations) = 1

\* C3: while load_data is between its entry and its commit, and after it
\* raised, both tables are as they were at its entry; after it returned the
\* Location and the Reading are both there; and every committed Reading
\* refers to a committed Location.
C3_AtomicLoad ==
    /\ pc \in LoadPcs => Some(Tables) = snapshot
    /\ outcome = "raised" => Some(Tables) = snapshot
    /\ outcome = "returned" =>
         \E j \in 1..Len(daily_readings) :
           daily_readings[j] = committed[Len(committed)].row
    /\ \A j \in 1..Len(daily_readings) :
         \E l \in 1..Len(locations) : locations[l].id = daily_readings[j].location_id

\* C3 witness: load_data raised after it had inserted a Location; the id it
\* drew is in no committed row.
C3_Witness ==
    /\ outcome = "raised"
    /\ location_id # None
    /\ \A l \in 1..Len(locations) : locations[l].id # location_id[1]
    /\ Len(committed) >= 1

----------------------------------------------------------------------------
\* Properties of a run (checked under Spec)

\* The units of work a run is to process, in order.
BackfillUnits ==
    [k \in 1..(DAYS_OF_HISTORY * Len(LOCATIONS)) |->
        [date |-> today - DAYS_OF_HISTORY + ((k - 1) \div Len(LOCATIONS)),
         loc |-> ((k - 1) % Len(LOCATIONS)) + 1]]

CurrentUnits == [k \in 1..Len(LOCATIONS) |-> [date |-> today, loc |-> k]]

Units == IF mode = "backfill" THEN BackfillUnits ELSE CurrentUnits

Connected == engine = "engine"

Ended == pc \in {"done", "crashed"}

\* C4 as claimed: an error raised by one upsert does not end the run; once
\* the store was reached, the run ends only at DONE, with every unit begun.
C4_RunSurvivesUpsertError ==
    (Connected /\ Ended) => (pc = "done" /\ started = Units)

\* C5 as claimed: with the API key missing no request of either kind is made.
C5_NoFetchWithoutKey ==
    ~api_key => (requests.aqi = 0 /\ requests.weather = 0)

\* The weather requests made so far: one per unit begun, the unit that is
\* still before its weather fetch excepted.
WeatherRequestsDue ==
    IF pc \in {"fetch_aqi", "fetch_weather"} THEN Len(started) - 1 ELSE Len(started)

\* C5, amended: with the API key missing no air-quality request is made and
\* nothing is loaded, but the run does not halt: it makes the weather request
\* of every unit of work and ends at DONE with all units begun.
C5_MissingKeySkipsEveryUnit ==
    ~api_key =>
      /\ requests.aqi = 0
      /\ calls.load = 0
      /\ Tables = [locations |-> <<>>, daily_readings |-> <<>>]
      /\ requests.weather = WeatherRequestsDue
      /\ pc # "crashed"
      /\ (pc = "done" /\ Connected) => started = Units

\* C5 witness: a run without the key has ended after a weather request for
\* every unit.
C5_Witness ==
    /\ ~api_key
    /\ pc = "done"
    /\ requests.weather = Len(Units)
    /\ requests.weather > 0

NullFetch == aqi_data = None \/ weather_data = None

\* C8: a unit whose air-quality or weather fetch returned None merges to
\* None, does not call load_data, leaves both tables as they are and hands
\* over to the next unit of work.
C8_NullMergeWritesNothing ==
    [][ /\ (pc = "transform" /\ NullFetch) =>
              (transformed_reading' = None /\ Tables' = Tables /\ pc' = "if_transformed")
        /\ (pc = "if_transformed" /\ NullFetch) =>
              (pc' = "for" /\ calls'.load = calls.load /\ Tables' = Tables /\ conn' = None)
      ]_vars

\* C8 witness: a unit with a weather fetch of None and an air-quality
\* response was dropped without a load, and the next unit has begun.
C8_Witness ==
    /\ pc = "fetch_aqi"
    /\ Len(started) = 2
    /\ weather_data = None
    /\ aqi_data # None
    /\ transformed_reading = None
    /\ calls.transform = 1
    /\ calls.load = 0

\* C9: when get_db_engine returns None the run is at DONE and has made no
\* request, no merge and no load, and has begun no unit of work.
C9_NoStoreNoWork ==
    engine = "none" =>
      /\ pc = "done"
      /\ requests = [aqi |-> 0, weather |-> 0]
      /\ calls = [transform |-> 0, load |-> 0]
      /\ started = <<>>
      /\ Tables = [locations |-> <<>>, daily_readings |-> <<>>]

\* C9 witness: the connection failed (in a backfill run).
C9_Witness ==
    /\ engine = "none"
    /\ mode = "backfill"
    /\ pc = "done"

\* What does hold of the order of a run: the units begun are a prefix of the
\* enumeration, and a run that reaches DONE with a store has begun them all.
UnitsInOrder ==
    /\ Len(started) <= Len(Units)
    /\ \A k \in 1..Len(started) : started[k] = Units[k]
    /\ (pc = "done" /\ Connected) => started = Units

\* C10 as claimed: a backfill run that reached the store processes every
\* (date, location) pair of today-N .. today-1 exactly once, oldest first.
C10_BackfillProcessesEveryUnit ==
    (mode = "backfill" /\ Connected /\ Ended) => started = BackfillUnits

----------------------------------------------------------------------------
\* Properties of the merge (checked under SpecMerge)

Merged == pc = "if_transformed"

WeatherKeys == {"temperature_2m_mean", "precipitation_sum", "wind_speed_10m_max"}

PollutantCodeSet == { POLLUTANT_CODES[k] : k \in 1..Len(POLLUTANT_CODES) }

\* An expected nested field is missing from the weather response.
WeatherFieldMissing(w) ==
    w.daily = <<>> \/ \E key \in WeatherKeys : w.daily[1][key] = <<>>

LacksConcentration(pollutants) ==
    pollutants # <<>> /\ \E k \in 1..Len(pollutants[1]) : pollutants[1][k].concentration = <<>>

\* An expected nested field is missing from the air-quality response.
AqiFieldMissing(a) ==
    IF mode = "current"
    THEN a.indexes = <<>> \/ a.pollutants = <<>> \/ LacksConcentration(a.pollutants)
    ELSE \/ a.hoursInfo = <<>>
         \/ \E k \in 1..Len(a.hoursInfo[1]) :
              LET hour == a.hoursInfo[1][k]
              IN  hour.indexes = <<>> \/ hour.pollutants = <<>>
                    \/ LacksConcentration(hour.pollutants)

\* C6 as claimed: non-null responses with an expected nested field missing
\* merge to None.
C6_MissingFieldDropsUnit ==
    (/\ Merged
     /\ aqi_data # None
     /\ weather_data # None
     /\ (AqiFieldMissing(aqi_data[1]) \/ WeatherFieldMissing(weather_data[1])))
    => transformed_reading = None

\* A weather list that is present and empty.
EmptyWeatherList(w) ==
    w.daily # <<>> /\ \E key \in WeatherKeys : w.daily[1][key] = Some(<<>>)

\* The hourly entries of a response ('hoursInfo' absent counts as none).
HoursOf(a) == IF a.hoursInfo = <<>> THEN <<>> ELSE a.hoursInfo[1]

\* The inputs for which the merge returns None.
MergeDrops ==
    \/ aqi_data = None
    \/ weather_data = None
    \/ weather_data[1].daily = <<>> /\ ~weather_data[1].other
    \/ EmptyWeatherList(weather_data[1])
    \/ /\ mode = "current"
       /\ aqi_data[1].indexes = <<>> /\ aqi_data[1].pollutants = <<>> /\ ~aqi_data[1].other
    \/ /\ mode = "backfill"
       /\ \/ HoursOf(aqi_data[1]) = <<>>
          \/ \A k \in 1..Len(HoursOf(aqi_data[1])) : HoursOf(aqi_data[1])[k].indexes = <<>>
          \/ \A k \in 1..Len(HoursOf(aqi_data[1])) : HoursOf(aqi_data[1])[k].pollutants = <<>>

\* The value a merged field takes when nothing reports it: None on the
\* current path, the mean of no value (NaN) on the historical path.
Unreported == IF mode = "current" THEN None ELSE NaN

\* Some pollutant entry of the list has the code and a concentration.
HasConcentration(pollutants, code) ==
    /\ pollutants # <<>>
    /\ \E k \in 1..Len(pollutants[1]) :
         pollutants[1][k].code = Some(code) /\ pollutants[1][k].concentration # <<>>

PollutantReported(a, code) ==
    IF mode = "current"
    THEN HasConcentration(a.pollutants, code)
    ELSE \E k \in 1..Len(HoursOf(a)) : HasConcentration(HoursOf(a)[k].pollutants, code)

IndexesPresent(a) ==
    IF mode = "current"
    THEN a.indexes # <<>>
    ELSE \E k \in 1..Len(HoursOf(a)) : HoursOf(a)[k].indexes \notin {<<>>, Some(<<>>)}

\* C6, amended: the merge returns None exactly for the inputs of MergeDrops
\* (a null or empty response, a weather list that is present but empty, and,
\* on the historical path, no hourly entry at all, none with 'indexes' or
\* none with 'pollutants'); for every other input, missing fields included,
\* it returns a record in which each field whose structure is missing is
\* null (NaN on the historical path).
C6_MissingFieldsBecomeNull ==
    Merged =>
      /\ (transformed_reading = None) <=> MergeDrops
      /\ transformed_reading # None =>
           LET r == transformed_reading[1]
               a == aqi_data[1]
               w == weather_data[1]
           IN  /\ (w.daily = <<>> \/ w.daily[1].temperature_2m_mean = <<>>)
                     => r.temperature_celsius = None
               /\ (w.daily = <<>> \/ w.daily[1].precipitation_sum = <<>>)
                     => r.precipitation_mm = None
               /\ (w.daily = <<>> \/ w.daily[1].wind_speed_10m_max = <<>>)
                     => r.wind_speed_kmh = None
               /\ ~IndexesPresent(a) => r.aqi = Unreported
               /\ \A code \in PollutantCodeSet :
                    ~PollutantReported(a, code) => r[code] = Unreported

\* C6 witness: a current merge of a weather response without 'daily' and an
\* air-quality response without 'indexes' gave a record with pm25 set and
\* aqi and the weather fields null.
C6_Witness ==
    /\ Merged
    /\ mode = "current"
    /\ weather_data # None /\ weather_data[1].daily = <<>>
    /\ aqi_data # None /\ aqi_data[1].indexes = <<>>
    /\ transformed_reading # None
    /\ transformed_reading[1].aqi = None
    /\ transformed_reading[1].temperature_celsius = None
    /\ transformed_reading[1].pm25 # None

\* A missing value: None, or the NaN pandas uses for it.
IsNull(v) == v \in {None, NaN}

RECURSIVE SumOver(_, _)
SumOver(col, ks) ==
    IF ks = {} THEN 0
    ELSE LET k == CHOOSE x \in ks : TRUE IN col[k][1] + SumOver(col, ks \ {k})

\* v is the arithmetic mean of the values the column reports, null when it
\* reports none.
IsMeanOf(v, col) ==
    LET reporting == { k \in 1..Len(col) : col[k] # None }
    IN  IF reporting = {}
        THEN IsNull(v)
        ELSE /\ ~IsNull(v)
             /\ v[2] > 0
             /\ v[1] * Cardinality(reporting) = SumOver(col, reporting) * v[2]

\* C7 as claimed: for a non-empty hourly list every one of aqi, pm10, pm25,
\* o3, no2, co, so2 is the mean over the hours that report it (null when no
\* hour does); for an empty hourly list the merge returns None.
C7_HourlyMean ==
    (/\ Merged
     /\ mode = "backfill"
     /\ HistoryTruthy(aqi_data)
     /\ WeatherTruthy(weather_data)
     /\ ~WeatherRaises(weather_data[1]))
    => LET hours == HoursOf(aqi_data[1])
       IN  IF hours = <<>>
           THEN transformed_reading = None
           ELSE /\ transformed_reading # None
                /\ IsMeanOf(transformed_reading[1].aqi, AqiColumn(hours))
                /\ \A code \in PollutantCodeSet :
                     IsMeanOf(transformed_reading[1][code], PollutantColumn(hours, code))

\* What does hold of the averaging: the statement of C7 for the responses in
\* which some hourly entry carries 'indexes' and some carries 'pollutants'.
HourlyMeanWithBothColumns ==
    (/\ Merged
     /\ mode = "backfill"
     /\ HistoryTruthy(aqi_data)
     /\ WeatherTruthy(weather_data)
     /\ ~WeatherRaises(weather_data[1])
     /\ HasColumn(HoursOf(aqi_data[1]), "indexes")
     /\ HasColumn(HoursOf(aqi_data[1]), "pollutants"))
    => /\ transformed_reading # None
       /\ IsMeanOf(transformed_reading[1].aqi, AqiColumn(HoursOf(aqi_data[1])))
       /\ \A code \in PollutantCodeSet :
            IsMeanOf(transformed_reading[1][code],
                     PollutantColumn(HoursOf(aqi_data[1]), code))

====
